---- MODULE Spec2Model ----
(***************************************************************************)
(* State-machine model of the citibike live-feed core:                     *)
(*   - TripSimulator        (src/src/utils/TripSimulator.ts), the replay   *)
(*                          engine with its broadcast bus;                 *)
(*   - MockRealtimeServer   (src/unnamed/part_003), the synthetic feed;    *)
(*   - useWebSocket         (src/unnamed/part_000), the session manager;   *)
(*   - useRealtimeTrips     (src/unnamed/part_001), the reducer on top of  *)
(*                          the session manager.                           *)
(*                                                                         *)
(* A behaviour exercises one of them, named by `scenario`: Spec the replay *)
(* engine or the synthetic feed, BusSpec the engine with subscribers,      *)
(* SessionSpec the session manager, ReducerSpec the reducer, TwinSpec the  *)
(* engine and the synthetic feed under the same control calls, FeedSpec    *)
(* the engine with the reducer as its subscriber, LongRunSpec the          *)
(* synthetic feed up to and past its target total.                         *)
(*                                                                         *)
(* Time is the wall clock in milliseconds, written as an offset from a     *)
(* (large, positive) epoch base, so every Date value of the program is     *)
(* positive and `new Date(x)` (TimeClip, truncation towards zero) is the   *)
(* floor of the offset.  A speed factor is held in tenths (10 is 1x, 1 is  *)
(* 0.1x, 500 is 50x) and the arithmetic on it is exact.                    *)
(***************************************************************************)
EXTENDS Integers, Sequences, FiniteSets, TLC

VARIABLES
    scenario,             \* which object this behaviour exercises
    now,                  \* wall clock (ms offset)
    ops,                  \* number of control calls made so far
    \* ---- TripSimulator fields
    input,                \* the array handed to the constructor
    trips,                \* this.trips
    speed,                \* this.speed (tenths)
    batchSize,            \* this.batchSize
    currentIndex,         \* this.currentIndex
    isRunning,            \* this.isRunning
    startTime,            \* this.startTime          (Null or Date)
    simulationStartTime,  \* this.simulationStartTime (Null or Date)
    intervalId,           \* this.intervalId (0 is null)
    timers,               \* number of setInterval timers of the engine still scheduled
    \* ---- observation
    out,                  \* messages broadcast by the last operation, in order
    prevTag,              \* type of the last message broadcast before that operation
    lastOp,               \* the last operation: name, argument, object state before it
    emitted,              \* concatenation of the new_trips batches broadcast since construction or reset
    completes,            \* number of simulation_complete messages broadcast
    pauseMark,            \* what pause() left behind, until the next start() or resume()
    \* ---- MockRealtimeServer fields
    mockIntervalId, mockTimers, tripCount, mockIsRunning, mockSpeed, callback,
    \* ---- useWebSocket state
    socket, connectionStatus, wsRef, channels, urlValid,
    lastMessage,          \* Null or the last message parsed
    messageHistory,       \* the last 100 messages parsed
    inflight,             \* per channel: frames the server has sent, not yet dispatched
    sent,                 \* frames handed to WebSocket.send, in order
    sends,                \* number of send() calls made so far
    frames,               \* number of frames the server has put on a channel so far
    released,             \* channels that disconnect() has closed
    opened,               \* channels whose open callback has fired
    \* ---- useRealtimeTrips state
    state,                \* the reducer's state object
    tripCountRef,         \* tripCountRef.current
    lastTripCountTime,    \* lastTripCountTime.current
    useMockMode,          \* useMockMode
    mockServerRef,        \* mockServerRef.current (0 is null)
    effectDue,            \* lastMessage changed and its effect has not run yet
    handled,              \* number of messages the reducer has applied
    inserted,             \* per key: when it was last inserted, and whether cleared since
    arrivals,             \* the batches applied since the last clearTrips(), and how many
                          \* of them had arrived when the current throughput window began
    \* ---- subscribers of the engine's bus
    subscribers,          \* this.subscribers, in insertion order
    received              \* per subscriber: the message types it was called with, in order

engineVars == <<input, trips, speed, batchSize, currentIndex, isRunning, startTime,
                simulationStartTime, intervalId, timers, emitted, completes,
                pauseMark>>
mockVars == <<mockIntervalId, mockTimers, tripCount, mockIsRunning, mockSpeed, callback>>
wsVars == <<socket, connectionStatus, wsRef, channels, urlValid, lastMessage,
           messageHistory, inflight, sent, sends, frames, released, opened>>
reducerVars == <<state, tripCountRef, lastTripCountTime, useMockMode, mockServerRef,
                effectDue, handled, inserted, arrivals>>
busVars == <<subscribers, received>>
vars == <<scenario, now, ops, out, prevTag, lastOp, engineVars, mockVars, wsVars,
          reducerVars, busVars>>

(***************************************************************************)
(* Bounds of the model.                                                    *)
(***************************************************************************)
MaxLen == 2        \* longest input array
MaxTime == 2       \* the wall clock ranges over 0..MaxTime
MaxOps == 3        \* control calls on the replay engine per behaviour
MaxMockTrips == 4  \* the synthetic counter stops growing here
MaxChannels == 2   \* WebSocket objects created per behaviour
Horizon == 4       \* clock readings of the fair-ticking runs saturate here
MaxSubs == 2       \* subscribers of the bus
MaxCompletes == 3  \* simulation_complete messages per behaviour
MaxFrames == 2     \* frames the server sends per behaviour
MaxSends == 1      \* send() calls per behaviour
MaxMsgs == 2       \* messages fed to the reducer per behaviour
TripDuration == 2  \* options.tripDuration (ms)
MaxRecentTrips == 2    \* options.maxRecentTrips

\* Value domains of the inputs.
Stamps == {0, 1}            \* start timestamps (ms offsets)
BatchSizes == {1, 2}        \* options.batchSize (a positive integer)
\* options.speed values tried at construction (tenths; 0 stands for an absent
\* or zero option, which `options.speed || 1` turns into 1x).
CtorSpeeds == {0, -10}
\* setSpeed arguments tried (tenths): below, inside and above [0.1, 50].
SpeedArgs == {0, 5, 10000}

Null == <<>>
Date(t) == <<t>>
getTime(d) == d[1]

FloorDiv(a, b) == IF b > 0 THEN a \div b ELSE (-a) \div (-b)
Min(a, b) == IF a <= b THEN a ELSE b
Max(a, b) == IF a >= b THEN a ELSE b

(***************************************************************************)
(* The constructor: a copy of the array sorted by start timestamp.         *)
(* Array.prototype.sort is stable, modelled as an insertion sort.          *)
(***************************************************************************)
InsertTrip(s, x) ==
    LET k == Cardinality({i \in DOMAIN s : s[i].t <= x.t})
    IN  SubSeq(s, 1, k) \o <<x>> \o SubSeq(s, k + 1, Len(s))

RECURSIVE SortPrefix(_, _)
SortPrefix(arr, n) ==
    IF n = 0 THEN <<>> ELSE InsertTrip(SortPrefix(arr, n - 1), arr[n])

NoSortTrips(arr) == arr
SortTrips(arr) == SortPrefix(arr, Len(arr))

\* An input array: trip i of the array is [id |-> i, t |-> its start timestamp].
InputArrays ==
    UNION {{[i \in 1..n |-> [id |-> i, t |-> f[i]]] : f \in [1..n -> Stamps]}
           : n \in 0..MaxLen}

CtorSpeed(opt) == IF opt = 0 THEN 10 ELSE opt

(***************************************************************************)
(* Messages.                                                               *)
(***************************************************************************)
Msg(type, data) == [type |-> type, data |-> data, progress |-> <<>>]

RoundPct(cur, total) == (200 * cur + total) \div (2 * total)

NewTripsMsg(batch, cur, total) ==
    [type |-> "new_trips", data |-> batch,
     progress |-> <<[current |-> cur, total |-> total,
                     percentage |-> RoundPct(cur, total)]>>]

(***************************************************************************)
(* The engine as a record, so that one method can call another.            *)
(***************************************************************************)
Eng == [speed |-> speed, currentIndex |-> currentIndex, isRunning |-> isRunning,
        startTime |-> startTime, simulationStartTime |-> simulationStartTime,
        intervalId |-> intervalId, timers |-> timers, msgs |-> <<>>,
        subs |-> subscribers, recv |-> received]

(***************************************************************************)
(* The bus.  A subscriber is the kind of its handler: "plain" returns,     *)
(* "raises" throws, "pauses" calls pause() on the engine when it is called *)
(* with simulation_started.  broadcast calls the handlers in insertion     *)
(* order, each inside try/catch; e.msgs is the order of the broadcast      *)
(* calls, e.recv[i] what handler i was called with.                        *)
(***************************************************************************)
HandlerKinds == {"plain", "raises", "pauses"}

RECURSIVE pause(_)
RECURSIVE Deliver(_, _, _)

\* callback(fullMessage) for subscriber i, with the catch around it.  The
\* subscribers are numbered in the order of their subscribe() calls; a slot
\* marked "gone" is a callback deleted from the set, which forEach does not
\* visit.
Handle(e, m, i) ==
    LET e1 == [e EXCEPT !.recv[i] = Append(@, m.type)]
    IN  IF e.subs[i] = "gone" THEN e
        ELSE IF e.subs[i] = "pauses" /\ m.type = "simulation_started"
        THEN pause(e1)
        ELSE e1

\* A bus without the try/catch: the first handler that throws ends the loop.
DeliverUntilRaise(e, m, i) ==
    IF i > Len(e.subs) THEN e
    ELSE IF e.subs[i] = "raises" THEN [e EXCEPT !.recv[i] = Append(@, m.type)]
    ELSE Deliver(Handle(e, m, i), m, i + 1)

\* this.subscribers.forEach, from subscriber i on.
Deliver(e, m, i) ==
    IF i > Len(e.subs) THEN e
    ELSE Deliver(Handle(e, m, i), m, i + 1)

broadcast(e, m) == Deliver([e EXCEPT !.msgs = Append(@, m)], m, 1)

clearInterval(e) ==
    IF e.intervalId # 0
    THEN [e EXCEPT !.timers = @ - 1, !.intervalId = 0]
    ELSE e

stopSilently(e) == clearInterval([e EXCEPT !.isRunning = FALSE])

\* A stop that leaves the interval timer scheduled.
stopKeepsTimer(e) ==
    broadcast([e EXCEPT !.isRunning = FALSE], Msg("simulation_stopped", <<>>))

stop(e) ==
    broadcast(clearInterval([e EXCEPT !.isRunning = FALSE]),
              Msg("simulation_stopped", <<>>))

\* startTime.getTime() + elapsedRealTime * speed, times ten.
VirtualTime10(e, t) ==
    10 * getTime(e.startTime) + (t - getTime(e.simulationStartTime)) * e.speed

TargetTime(e, t) == FloorDiv(VirtualTime10(e, t), 10)

RECURSIVE ConsumeStrict(_, _, _, _)
ConsumeStrict(i, taken, target, cap) ==
    IF i < Len(trips) /\ trips[i + 1].t < target
    THEN IF taken + 1 >= cap THEN taken + 1
         ELSE ConsumeStrict(i + 1, taken + 1, target, cap)
    ELSE taken

\* The while loop of getNextBatch: how many trips it consumes from index i on.
RECURSIVE Consume(_, _, _, _)
Consume(i, taken, target, cap) ==
    IF i < Len(trips) /\ trips[i + 1].t <= target
    THEN IF taken + 1 >= cap THEN taken + 1
         ELSE Consume(i + 1, taken + 1, target, cap)
    ELSE taken

BatchLenUncapped(i, target, cap) == Consume(i, 0, target, Len(trips) + 1)
BatchLen(i, target, cap) == Consume(i, 0, target, cap)

getNextBatch(e, t) ==
    IF e.currentIndex >= Len(trips)
    THEN [e |-> broadcast(stop(e), Msg("simulation_complete", <<>>)),
          batch |-> <<>>]
    ELSE LET e1 == IF e.startTime = Null
                   THEN [e EXCEPT !.startTime = Date(trips[1].t),
                                  !.simulationStartTime = Date(t)]
                   ELSE e
             target == TargetTime(e1, t)
             n == BatchLen(e1.currentIndex, target, batchSize)
         IN  [e |-> [e1 EXCEPT !.currentIndex = @ + n],
              batch |-> SubSeq(trips, e1.currentIndex + 1, e1.currentIndex + n)]

\* The setInterval callback of start().
\* A tick that reports the cursor as it was before the batch.
tickStaleProgress(e, t) ==
    LET r == getNextBatch(e, t)
    IN  IF Len(r.batch) > 0
        THEN broadcast(r.e, NewTripsMsg(r.batch, e.currentIndex, Len(trips)))
        ELSE r.e

tick(e, t) ==
    LET r == getNextBatch(e, t)
    IN  IF Len(r.batch) > 0
        THEN broadcast(r.e, NewTripsMsg(r.batch, r.e.currentIndex, Len(trips)))
        ELSE r.e

\* A start without the guard on the running flag.
startAgain(e) ==
    LET e1 == broadcast([e EXCEPT !.isRunning = TRUE],
                        Msg("simulation_started", <<Len(trips)>>))
    IN  [e1 EXCEPT !.intervalId = 1, !.timers = @ + 1]

start(e) ==
    IF e.isRunning THEN e
    ELSE LET e1 == broadcast([e EXCEPT !.isRunning = TRUE],
                             Msg("simulation_started", <<Len(trips)>>))
         IN  [e1 EXCEPT !.intervalId = 1, !.timers = @ + 1]

pauseKeepsTimer(e) ==
    IF ~e.isRunning THEN e
    ELSE broadcast([e EXCEPT !.isRunning = FALSE], Msg("simulation_paused", <<>>))

\* A pause that steps the cursor back by one.
pauseRewinds(e) ==
    IF ~e.isRunning THEN e
    ELSE broadcast(clearInterval([e EXCEPT !.isRunning = FALSE,
                                           !.currentIndex = Max(0, @ - 1)]),
                   Msg("simulation_paused", <<>>))

\* A pause that tells nobody.
pauseSilent(e) ==
    IF ~e.isRunning THEN e
    ELSE clearInterval([e EXCEPT !.isRunning = FALSE])

\* A pause without the guard on the running flag.
pauseAlways(e) ==
    broadcast(clearInterval([e EXCEPT !.isRunning = FALSE]),
              Msg("simulation_paused", <<>>))

pause(e) ==
    IF ~e.isRunning THEN e
    ELSE broadcast(clearInterval([e EXCEPT !.isRunning = FALSE]),
                   Msg("simulation_paused", <<>>))

\* new Date(now.getTime() - pausedDuration / this.speed)
ResumeOrigin(e, t) ==
    LET pausedDuration == t - getTime(e.simulationStartTime)
    IN  Date(FloorDiv(t * e.speed - 10 * pausedDuration, e.speed))

resume(e, t) ==
    IF e.isRunning THEN e
    ELSE LET e1 == IF e.simulationStartTime # Null
                   THEN [e EXCEPT !.simulationStartTime = ResumeOrigin(e, t)]
                   ELSE e
         IN  broadcast(start(e1), Msg("simulation_resumed", <<>>))

\* A reset that keeps the cursor.
resetKeepsCursor(e) ==
    broadcast([stop(e) EXCEPT !.startTime = Null, !.simulationStartTime = Null],
              Msg("simulation_stopped", <<>>))

\* this.stop(); this.subscribers.clear()
destroy(e) ==
    [stop(e) EXCEPT !.subs = [i \in DOMAIN e.subs |-> "gone"]]

reset(e) ==
    broadcast([stop(e) EXCEPT !.currentIndex = 0, !.startTime = Null,
                              !.simulationStartTime = Null],
              Msg("simulation_stopped", <<>>))

NoClamp(v) == v
Clamp(v) == Max(1, Min(500, v))

setSpeed(e, v, t) ==
    LET wasRunning == e.isRunning
        e1 == IF wasRunning THEN pause(e) ELSE e
        e2 == [e1 EXCEPT !.speed = Clamp(v)]
        e3 == IF wasRunning THEN resume(e2, t) ELSE e2
    IN  broadcast(e3, Msg("speed_changed", <<e3.speed>>))



(***************************************************************************)
(* MockRealtimeServer, as a record for the same reason.                    *)
(***************************************************************************)
MockTotal == 1000
MockMaxBatch == 3

Mock == [intervalId |-> mockIntervalId, timers |-> mockTimers, tripCount |-> tripCount,
         isRunning |-> mockIsRunning, speed |-> mockSpeed, callback |-> callback,
         msgs |-> <<>>]

\* if (this.callback) this.callback(message)
mockEmit(m, msg) == IF m.callback THEN [m EXCEPT !.msgs = Append(@, msg)] ELSE m

mockClearInterval(m) ==
    IF m.intervalId # 0
    THEN [m EXCEPT !.timers = @ - 1, !.intervalId = 0]
    ELSE m

mockSetInterval(m) == [m EXCEPT !.intervalId = 1, !.timers = @ + 1]

\* The generated trips carry a fresh id each; their stations are drawn from a
\* fixed pool and are left out.
MockTrips(from, n) == [i \in 1..n |-> [id |-> from + i]]

\* percentage: Math.min(tripCount / 1000 * 100, 100), in tenths of a percent.
MockProgress(count) ==
    [current |-> count, total |-> MockTotal,
     percentage10 |-> Min((count * 1000) \div MockTotal, 1000)]

\* A sendTrips without its guard.
mockSendTripsAlways(m, n) ==
    LET m1 == [m EXCEPT !.tripCount = @ + n]
    IN  [m1 EXCEPT !.msgs = Append(@, [type |-> "new_trips",
                                       data |-> MockTrips(m.tripCount, n),
                                       progress |-> <<MockProgress(m1.tripCount)>>])]

mockSendTrips(m, n) ==
    IF ~m.isRunning \/ ~m.callback THEN m
    ELSE LET m1 == [m EXCEPT !.tripCount = @ + n]
         IN  mockEmit(m1, [type |-> "new_trips", data |-> MockTrips(m.tripCount, n),
                           progress |-> <<MockProgress(m1.tripCount)>>])

mockStart(m) ==
    mockEmit([m EXCEPT !.callback = TRUE], Msg("simulation_started", <<MockTotal>>))

mockStartSimulation(m) ==
    IF m.isRunning THEN m
    ELSE mockSetInterval(mockEmit([m EXCEPT !.isRunning = TRUE],
                                  Msg("simulation_started", <<MockTotal>>)))

\* A pause of the generator that reports nothing.
mockPauseSilent(m) ==
    IF ~m.isRunning THEN m
    ELSE mockClearInterval([m EXCEPT !.isRunning = FALSE])

mockPauseSimulation(m) ==
    IF ~m.isRunning THEN m
    ELSE mockEmit(mockClearInterval([m EXCEPT !.isRunning = FALSE]),
                  Msg("simulation_paused", <<>>))

mockStopSimulation(m) ==
    mockEmit(mockClearInterval([m EXCEPT !.isRunning = FALSE]),
             Msg("simulation_stopped", <<>>))

mockClamp(v) == Max(1, Min(500, v))

mockSetSpeed(m, v) ==
    LET m1 == [m EXCEPT !.speed = mockClamp(v)]
        m2 == mockEmit(m1, Msg("speed_changed", <<m1.speed>>))
    IN  IF m2.isRunning /\ m2.intervalId # 0
        THEN mockSetInterval(mockClearInterval(m2))
        ELSE m2

mockResetSimulation(m) ==
    mockEmit([mockStopSimulation(m) EXCEPT !.tripCount = 0],
             Msg("simulation_stopped", <<>>))

mockStop(m) == [mockStopSimulation(m) EXCEPT !.callback = FALSE]

(***************************************************************************)
(* Observation: what a step leaves in the history variables.               *)
(***************************************************************************)
RECURSIVE Batches(_)
Batches(ms) ==
    IF ms = <<>> THEN <<>>
    ELSE (IF Head(ms).type = "new_trips" THEN Head(ms).data ELSE <<>>)
         \o Batches(Tail(ms))

CountType(ms, ty) == Cardinality({i \in DOMAIN ms : ms[i].type = ty})

Op(name, arg, pre) == [name |-> name, arg |-> arg, pre |-> pre]

Observe(msgs, op) ==
    /\ out' = msgs
    /\ prevTag' = IF out = <<>> THEN prevTag ELSE out[Len(out)].type
    /\ lastOp' = op

\* Install engine record e as the state after operation op.
Install(e, op) ==
    /\ speed' = e.speed
    /\ currentIndex' = e.currentIndex
    /\ isRunning' = e.isRunning
    /\ startTime' = e.startTime
    /\ simulationStartTime' = e.simulationStartTime
    /\ intervalId' = e.intervalId
    /\ timers' = e.timers
    /\ subscribers' = e.subs
    /\ received' = e.recv
    /\ Observe(e.msgs, op)
    /\ emitted' = (IF op.name = "reset" THEN <<>> ELSE emitted) \o Batches(e.msgs)
    /\ completes' = completes + CountType(e.msgs, "simulation_complete")
    /\ UNCHANGED <<input, trips, batchSize, scenario, mockVars, wsVars, reducerVars>>

Control(e, name, arg) ==
    /\ scenario \in {"replay", "bus"}
    /\ ops < MaxOps
    /\ ops' = ops + 1
    /\ now' = now
    /\ Install(e, Op(name, arg, Eng))

NoPause == [since |-> FALSE, effective |-> FALSE, cursor |-> 0, vt |-> <<>>,
            reset |-> FALSE]

(***************************************************************************)
(* Actions of the replay engine.                                           *)
(***************************************************************************)
Start ==
    /\ Control(start(Eng), "start", 0)
    /\ pauseMark' = [pauseMark EXCEPT !.since = FALSE]

Pause ==
    /\ Control(pause(Eng), "pause", 0)
    /\ pauseMark' = [since |-> TRUE, effective |-> isRunning, cursor |-> currentIndex,
                     vt |-> IF startTime # Null THEN <<VirtualTime10(Eng, now)>> ELSE <<>>,
                     reset |-> FALSE]

\* The argument recorded is 1 when the engine resumed was paused by pause()
\* after at least one tick.
Resume ==
    /\ Control(resume(Eng, now), "resume",
               IF pauseMark.since /\ pauseMark.effective /\ ~pauseMark.reset
                  /\ ~isRunning /\ startTime # Null
               THEN 1 ELSE 0)
    /\ pauseMark' = [pauseMark EXCEPT !.since = FALSE]

Stop ==
    /\ Control(stop(Eng), "stop", 0)
    /\ pauseMark' = pauseMark

Reset ==
    /\ Control(reset(Eng), "reset", 0)
    /\ pauseMark' = [pauseMark EXCEPT !.reset = TRUE]

SetSpeed ==
    \E v \in SpeedArgs :
        /\ Control(setSpeed(Eng, v, now), "setSpeed", v)
        /\ pauseMark' = IF isRunning THEN [pauseMark EXCEPT !.since = FALSE]
                        ELSE pauseMark

Destroy ==
    /\ scenario = "bus"
    /\ Control(destroy(Eng), "destroy", 0)
    /\ pauseMark' = pauseMark

\* One firing of the interval timer.
Tick ==
    /\ scenario \in {"replay", "bus"}
    /\ timers > 0
    /\ completes < MaxCompletes
    /\ Install(tick(Eng, now), Op("tick", 0, Eng))
    /\ UNCHANGED <<now, ops, pauseMark>>

\* The wall clock moves on.
Advance ==
    /\ scenario = "replay"
    /\ now < MaxTime
    /\ now' = now + 1
    /\ Observe(<<>>, Op("advance", 0, 0))
    /\ UNCHANGED <<scenario, ops, engineVars, mockVars, wsVars, reducerVars, busVars>>

\* subscribe(callback) with a handler of the given kind; the handlers are
\* registered before the first control call.
Subscribe ==
    /\ scenario = "bus"
    /\ ops = 0
    /\ Len(subscribers) < MaxSubs
    /\ \E kind \in HandlerKinds :
        /\ subscribers' = Append(subscribers, kind)
        /\ Observe(<<>>, Op("subscribe", kind, Eng))
    /\ received' = Append(received, <<>>)
    /\ UNCHANGED <<scenario, now, ops, input, trips, speed, batchSize, currentIndex,
                   isRunning, startTime, simulationStartTime, intervalId, timers,
                   emitted, completes, pauseMark, mockVars, wsVars, reducerVars>>

\* An unsubscribe function that deletes nothing.
unsubscribeNothing(e, i) == e

\* The function subscribe() returned for subscriber i:
\* () => this.subscribers.delete(callback)
unsubscribe(e, i) == [e EXCEPT !.subs[i] = "gone"]

Unsubscribed == {i \in DOMAIN subscribers : subscribers[i] = "gone"}

\* A call of an unsubscribe function, counted with the control calls.
Unsubscribe ==
    /\ scenario = "bus"
    /\ ops < MaxOps
    /\ ops' = ops + 1
    /\ \E i \in DOMAIN subscribers \ Unsubscribed :
        /\ subscribers' = unsubscribe(Eng, i).subs
        /\ Observe(<<>>, Op("unsubscribe", i, Eng))
    /\ UNCHANGED <<scenario, now, engineVars, received, mockVars, wsVars,
                   reducerVars>>

(***************************************************************************)
(* Actions of the synthetic generator.                                     *)
(***************************************************************************)
InstallMock(m, name, arg) ==
    /\ scenario = "synthetic"
    /\ mockIntervalId' = m.intervalId
    /\ mockTimers' = m.timers
    /\ tripCount' = m.tripCount
    /\ mockIsRunning' = m.isRunning
    /\ mockSpeed' = m.speed
    /\ callback' = m.callback
    /\ Observe(m.msgs, Op(name, arg, Mock))
    /\ UNCHANGED <<scenario, now, ops, engineVars, wsVars, reducerVars, busVars>>

MockStart == InstallMock(mockStart(Mock), "mock.start", 0)
MockStartSimulation == InstallMock(mockStartSimulation(Mock), "mock.startSimulation", 0)
MockPauseSimulation == InstallMock(mockPauseSimulation(Mock), "mock.pauseSimulation", 0)
MockStopSimulation == InstallMock(mockStopSimulation(Mock), "mock.stopSimulation", 0)
MockSetSpeed == \E v \in SpeedArgs : InstallMock(mockSetSpeed(Mock, v), "mock.setSpeed", v)
MockResetSimulation == InstallMock(mockResetSimulation(Mock), "mock.resetSimulation", 0)
MockStop == InstallMock(mockStop(Mock), "mock.stop", 0)

\* One firing of the generator's interval timer.
MockTick ==
    /\ mockTimers > 0
    /\ \E n \in 1..MockMaxBatch :
        /\ tripCount + n <= MaxMockTrips
        /\ InstallMock(mockSendTrips(Mock, n), "mock.tick", n)

\* One firing of the generator's interval timer in a long run: the counter
\* may pass the target total by MaxMockTrips.
LongTick ==
    /\ mockTimers > 0
    /\ \E n \in 1..MockMaxBatch :
        /\ tripCount + n <= MockTotal + MaxMockTrips
        /\ InstallMock(mockSendTrips(Mock, n), "mock.tick", n)

(***************************************************************************)
(* The two sources side by side: one caller drives a replay engine and a   *)
(* synthetic generator (its callback registered) with the same control     *)
(* calls.  The engine's messages of a step are in out, the generator's in  *)
(* the argument recorded for the step.                                     *)
(***************************************************************************)
TwinInstall(e, m, name, v) ==
    /\ scenario = "twin"
    /\ speed' = e.speed
    /\ currentIndex' = e.currentIndex
    /\ isRunning' = e.isRunning
    /\ startTime' = e.startTime
    /\ simulationStartTime' = e.simulationStartTime
    /\ intervalId' = e.intervalId
    /\ timers' = e.timers
    /\ mockIntervalId' = m.intervalId
    /\ mockTimers' = m.timers
    /\ tripCount' = m.tripCount
    /\ mockIsRunning' = m.isRunning
    /\ mockSpeed' = m.speed
    /\ callback' = m.callback
    /\ Observe(e.msgs, Op(name, [v |-> v, mock |-> m.msgs], [eng |-> Eng, mock |-> Mock]))
    /\ emitted' = emitted \o Batches(e.msgs)
    /\ completes' = completes + CountType(e.msgs, "simulation_complete")
    /\ UNCHANGED <<scenario, input, trips, batchSize, pauseMark, wsVars, reducerVars,
                   busVars>>

TwinControl(e, m, name, v) ==
    /\ ops < MaxOps
    /\ ops' = ops + 1
    /\ now' = now
    /\ TwinInstall(e, m, name, v)

TwinStart == TwinControl(start(Eng), mockStartSimulation(Mock), "start", 0)
TwinPause == TwinControl(pause(Eng), mockPauseSimulation(Mock), "pause", 0)
TwinStop == TwinControl(stop(Eng), mockStopSimulation(Mock), "stop", 0)
TwinSetSpeed ==
    \E v \in SpeedArgs :
        TwinControl(setSpeed(Eng, v, now), mockSetSpeed(Mock, v), "setSpeed", v)

\* The engine's interval timer fires, the wall clock having moved on by d.
TwinTick ==
    /\ timers > 0
    /\ \E d \in 0..1 :
        /\ now + d <= MaxTime
        /\ now' = now + d
        /\ TwinInstall(tick(Eng, now'), Mock, "tick", d)
    /\ UNCHANGED ops

\* The generator's interval timer fires.
TwinMockTick ==
    /\ mockTimers > 0
    /\ \E n \in 1..MockMaxBatch :
        /\ tripCount + n <= MaxMockTrips
        /\ TwinInstall(Eng, mockSendTrips(Mock, n), "mock.tick", n)
    /\ UNCHANGED <<now, ops>>

(***************************************************************************)
(* useRealtimeTrips: the reducer.  A progress value is held as a number of *)
(* TripDuration-ths (progress = elapsed / tripDuration, capped at 1), the  *)
(* events-per-second figure in hundredths, a speed in tenths.              *)
(***************************************************************************)
WindowMs == 1000

InitialState ==
    [isPlaying |-> FALSE, currentSpeed |-> 10, progress |-> 0, totalTrips |-> 0,
     recentTrips |-> <<>>, allTrips |-> <<>>, activeTrips |-> {}, tripCount |-> 0,
     tripsPerSecond |-> 0]

\* trip.trip_id || `${start_station_id}-${end_station_id}-${Date.now()}-${index}`
\* (id 0 is an absent trip_id; the stations are left out of the trips).
TripKey(trip, t, index) ==
    IF trip.id # 0 THEN [id |-> trip.id, t |-> 0, index |-> 0]
    ELSE [id |-> 0, t |-> t, index |-> index]

\* Map.set
MapSet(active, entry) == {a \in active : a.key # entry.key} \cup {entry}

\* newTrips.forEach(...), from position i on (index i - 1 of the array).
RECURSIVE SetTrips(_, _, _, _)
SetTrips(active, newTrips, t, i) ==
    IF i > Len(newTrips) THEN active
    ELSE SetTrips(MapSet(active, [key |-> TripKey(newTrips[i], t, i - 1),
                                  trip |-> newTrips[i],
                                  animationStartTime |-> t,
                                  progress |-> 0]),
                  newTrips, t, i + 1)

\* A recent list that is never cut.
KeepAll(q, n) == q

Slice(q, n) == SubSeq(q, 1, Min(Len(q), n))

\* A reducer that ignores what it is handed.
handleMessageIgnored(st, ref, m, t) == [state |-> st, ref |-> ref]

\* handleMessage at wall time t; ref is tripCountRef.current.
handleMessage(st, ref, m, t) ==
    IF m.type = "" THEN [state |-> st, ref |-> ref]
    ELSE CASE m.type = "new_trips" ->
                LET newTrips == m.data
                    st1 == [st EXCEPT
                              !.recentTrips = Slice(newTrips \o @, MaxRecentTrips),
                              !.allTrips = @ \o newTrips,
                              !.activeTrips = SetTrips(@, newTrips, t, 1),
                              !.tripCount = @ + Len(newTrips)]
                    st2 == IF m.progress # <<>>
                           THEN [st1 EXCEPT !.progress = m.progress[1].percentage,
                                            !.totalTrips = m.progress[1].total]
                           ELSE st1
                IN  [state |-> st2, ref |-> ref + Len(newTrips)]
           [] m.type = "simulation_started" ->
                [state |-> [st EXCEPT !.isPlaying = TRUE,
                                      !.totalTrips = IF m.data # <<>> /\ m.data[1] # 0
                                                     THEN m.data[1] ELSE @],
                 ref |-> ref]
           [] m.type = "simulation_paused" ->
                [state |-> [st EXCEPT !.isPlaying = FALSE], ref |-> ref]
           [] m.type = "simulation_resumed" ->
                [state |-> [st EXCEPT !.isPlaying = TRUE], ref |-> ref]
           [] m.type = "simulation_stopped" ->
                [state |-> [st EXCEPT !.isPlaying = FALSE], ref |-> ref]
           [] m.type = "simulation_complete" ->
                [state |-> [st EXCEPT !.isPlaying = FALSE, !.progress = 100], ref |-> ref]
           [] m.type = "speed_changed" ->
                [state |-> [st EXCEPT !.currentSpeed = IF m.data # <<>> /\ m.data[1] # 0
                                                       THEN m.data[1] ELSE @],
                 ref |-> ref]
           [] OTHER -> [state |-> st, ref |-> ref]

\* Math.min(elapsed / tripDuration, 1), in TripDuration-ths.
Progress(elapsed) == Min(elapsed, TripDuration)

\* An animation step that keeps the entities that have run their time.
NoEviction(active, t) ==
    {[a EXCEPT !.progress = Progress(t - a.animationStartTime)] : a \in active}

\* The forEach of updateAnimations: the new active map.
Evict(active, t) ==
    {[a EXCEPT !.progress = Progress(t - a.animationStartTime)] :
        a \in {x \in active : Progress(t - x.animationStartTime) < TripDuration}}

\* Math.round((tripCountRef.current / timeSinceLastCount) * 1000 * 100) / 100,
\* in hundredths.
TripsPerSecond(count, since) == (2 * count * 100000 + since) \div (2 * since)

\* An animation step that reports the rate and keeps the window running.
updateAnimationsNoReset(st, ref, last, t) ==
    [state |-> [st EXCEPT !.activeTrips = Evict(@, t),
                          !.tripsPerSecond = IF t - last >= WindowMs
                                             THEN TripsPerSecond(ref, t - last) ELSE @],
     ref |-> ref, last |-> last]

\* An animation step that zeroes the counter and keeps the window's start.
updateAnimationsKeepsWindow(st, ref, last, t) ==
    LET st1 == [st EXCEPT !.activeTrips = Evict(@, t)]
    IN  IF t - last >= WindowMs
        THEN [state |-> [st1 EXCEPT !.tripsPerSecond = TripsPerSecond(ref, t - last)],
              ref |-> 0, last |-> last]
        ELSE [state |-> st1, ref |-> ref, last |-> last]

updateAnimations(st, ref, last, t) ==
    LET st1 == [st EXCEPT !.activeTrips = Evict(@, t)]
    IN  IF t - last >= WindowMs
        THEN [state |-> [st1 EXCEPT !.tripsPerSecond = TripsPerSecond(ref, t - last)],
              ref |-> 0, last |-> t]
        ELSE [state |-> st1, ref |-> ref, last |-> last]

\* A clearing that resets the whole state object.
clearTripsAll(st, t) == [state |-> InitialState, ref |-> 0, last |-> t]

clearTrips(st, t) ==
    [state |-> [st EXCEPT !.recentTrips = <<>>, !.allTrips = <<>>, !.activeTrips = {},
                          !.tripCount = 0, !.tripsPerSecond = 0],
     ref |-> 0, last |-> t]

\* const connectionStatus = useMockMode ? 'Connected' : wsConnectionStatus
ReportedStatus == IF useMockMode THEN "Connected" ELSE connectionStatus

\* The messages fed to the reducer.
ReducerMsgs ==
    {NewTripsMsg(<<[id |-> 1, t |-> 0]>>, 1, 2),
     [type |-> "new_trips", data |-> <<[id |-> 0, t |-> 0], [id |-> 0, t |-> 1]>>,
      progress |-> <<>>],
     Msg("simulation_started", <<2>>),
     Msg("simulation_paused", <<>>),
     Msg("simulation_resumed", <<>>),
     Msg("simulation_stopped", <<>>),
     Msg("simulation_complete", <<>>),
     Msg("speed_changed", <<20>>)}

Reducer == [state |-> state, tripCountRef |-> tripCountRef,
            lastTripCountTime |-> lastTripCountTime, inserted |-> inserted,
            connectionStatus |-> ReportedStatus, useMockMode |-> useMockMode,
            arrivals |-> arrivals]

\* What the insertions of message m at time t leave in the insertion record.
RECURSIVE Inserted(_, _, _, _)
Inserted(rec, newTrips, t, i) ==
    IF i > Len(newTrips) THEN rec
    ELSE LET k == TripKey(newTrips[i], t, i - 1)
         IN  Inserted({x \in rec : x.key # k}
                        \cup {[key |-> k, at |-> t, cleared |-> FALSE]},
                      newTrips, t, i + 1)

InstallReducer(r, name, arg) ==
    /\ state' = r.state
    /\ tripCountRef' = r.ref
    /\ Observe(<<>>, Op(name, arg, Reducer))
    /\ UNCHANGED <<scenario, ops, engineVars, mockVars, wsVars, busVars,
                   useMockMode, mockServerRef, effectDue>>

\* The lastMessage effect with a message from the active source.
Apply ==
    /\ scenario = "reducer"
    /\ handled < MaxMsgs
    /\ \E m \in ReducerMsgs :
        /\ InstallReducer(handleMessage(state, tripCountRef, m, now), "message", m)
        /\ inserted' = IF m.type = "new_trips" THEN Inserted(inserted, m.data, now, 1)
                       ELSE inserted
        /\ arrivals' = IF m.type = "new_trips"
                       THEN [arrivals EXCEPT !.batches = Append(@, m.data)]
                       ELSE arrivals
    /\ handled' = handled + 1
    /\ UNCHANGED <<now, lastTripCountTime>>

\* One animation frame.
Animate ==
    /\ scenario = "reducer"
    /\ LET r == updateAnimations(state, tripCountRef, lastTripCountTime, now)
       IN  /\ InstallReducer(r, "animate", 0)
           /\ lastTripCountTime' = r.last
           /\ arrivals' = IF r.last # lastTripCountTime
                          THEN [arrivals EXCEPT !.mark = Len(arrivals.batches)]
                          ELSE arrivals
    /\ UNCHANGED <<now, handled, inserted>>

ClearTrips ==
    /\ scenario = "reducer"
    /\ LET r == clearTrips(state, now)
       IN  /\ InstallReducer(r, "clearTrips", 0)
           /\ lastTripCountTime' = r.last
    /\ inserted' = {[x EXCEPT !.cleared = TRUE] : x \in inserted}
    /\ arrivals' = [batches |-> <<>>, mark |-> 0]
    /\ UNCHANGED <<now, handled>>

\* The wall clock of the reducer moves on, by a millisecond or by a window:
\* its readings are within MaxTime of the start or of one or two windows later.
ReducerAdvance ==
    /\ scenario = "reducer"
    /\ \E d \in {1, WindowMs} :
        /\ now + d <= 2 * WindowMs + MaxTime
        /\ (now + d) % WindowMs <= MaxTime
        /\ now' = now + d
    /\ Observe(<<>>, Op("advance", 0, 0))
    /\ UNCHANGED <<scenario, ops, engineVars, mockVars, wsVars, reducerVars, busVars>>

(***************************************************************************)
(* useWebSocket.  A channel is a WebSocket object, held by its readyState; *)
(* "FAILED" is a channel whose error event has fired and whose close event *)
(* is still to come.  Its handlers stay attached for as long as it lives.  *)
(* A frame is the text of one message on the wire: its parse succeeds      *)
(* (ok, with the message it carries) or throws.                            *)
(***************************************************************************)
HistoryKeep == 99

Ws == [socket |-> socket, connectionStatus |-> connectionStatus, wsRef |-> wsRef,
       channels |-> channels, lastMessage |-> lastMessage,
       messageHistory |-> messageHistory, sent |-> sent, released |-> released,
       state |-> state, effectDue |-> effectDue]

ObserveWs(name, arg) ==
    /\ scenario = "session"
    /\ Observe(<<>>, Op(name, arg, Ws))
    /\ UNCHANGED <<scenario, now, ops, engineVars, mockVars, busVars, urlValid,
                   useMockMode, mockServerRef, lastTripCountTime, inserted, arrivals>>

connect ==
    IF urlValid
    THEN /\ connectionStatus' = "Connecting"
         /\ channels' = Append(channels, "CONNECTING")
         /\ inflight' = Append(inflight, <<>>)
         /\ wsRef' = Len(channels) + 1
    ELSE \* new WebSocket(url) throws: the catch block
         /\ connectionStatus' = "Error"
         /\ UNCHANGED <<channels, inflight, wsRef>>

\* useRealtimeTrips.connect: wsConnect() and nothing else.  (A behaviour
\* with traffic keeps to its first channel.)
Connect ==
    /\ Len(channels) < MaxChannels
    /\ Len(channels) = 0 \/ (frames = 0 /\ sends = 0)
    /\ connect
    /\ UNCHANGED <<socket, lastMessage, messageHistory, sent, sends, frames, released,
                   state, tripCountRef, effectDue, handled>>
    /\ opened' = opened
    /\ ObserveWs("connect", 0)

\* ws.onopen
OnOpen ==
    \E c \in DOMAIN channels :
        /\ channels[c] = "CONNECTING"
        /\ channels' = [channels EXCEPT ![c] = "OPEN"]
        /\ connectionStatus' = "Connected"
        /\ socket' = c
        /\ opened' = opened \cup {c}
        /\ UNCHANGED <<wsRef, inflight, lastMessage, messageHistory, sent, sends, frames,
                       released, state, tripCountRef, effectDue, handled>>
        /\ ObserveWs("onopen", c)

\* ws.onerror
OnError ==
    \E c \in DOMAIN channels :
        /\ channels[c] \in {"CONNECTING", "OPEN", "CLOSING"}
        /\ channels' = [channels EXCEPT ![c] = "FAILED"]
        /\ connectionStatus' = "Error"
        /\ UNCHANGED <<socket, wsRef, inflight, lastMessage, messageHistory, sent, sends,
                       frames, released, state, tripCountRef, effectDue, handled>>
        /\ opened' = opened
        /\ ObserveWs("onerror", c)

\* ws.onclose
OnClose ==
    \E c \in DOMAIN channels :
        /\ channels[c] \in {"OPEN", "CLOSING", "FAILED"}
        /\ channels' = [channels EXCEPT ![c] = "CLOSED"]
        /\ connectionStatus' = "Disconnected"
        /\ socket' = 0
        /\ UNCHANGED <<wsRef, inflight, lastMessage, messageHistory, sent, sends, frames,
                       released, state, tripCountRef, effectDue, handled>>
        /\ opened' = opened
        /\ ObserveWs("onclose", c)

\* The server puts a frame on a channel it sees open.  (A behaviour has
\* traffic in one direction: frames from the server or send() calls.)
FrameKinds == {"json", "trips", "garbage"}

\* The n-th frame of the server: a lifecycle message, a batch of one trip, or
\* text that is no JSON.
Frame(kind, n) ==
    [ok |-> kind # "garbage", n |-> n,
     msg |-> CASE kind = "json" -> Msg("simulation_started", <<2>>)
               [] kind = "trips" -> NewTripsMsg(<<[id |-> n, t |-> 0]>>, n, 2)
               [] OTHER -> Msg("", <<>>)]

ServerSend ==
    \E c \in DOMAIN channels, kind \in FrameKinds :
        /\ channels[c] = "OPEN"
        /\ Len(channels) = 1
        /\ sends = 0
        /\ frames < MaxFrames
        /\ frames' = frames + 1
        /\ inflight' = [inflight EXCEPT ![c] = Append(@, Frame(kind, frames + 1))]
        /\ UNCHANGED <<socket, connectionStatus, wsRef, channels, lastMessage,
                       messageHistory, sent, sends, released, state, tripCountRef,
                       effectDue, handled>>
        /\ opened' = opened
        /\ ObserveWs("server", c)

\* JSON.parse(event.data): the message, or nothing when it throws.
JSONparseLenient(frame) == <<frame.msg>>
JSONparse(frame) == IF frame.ok THEN <<frame.msg>> ELSE <<>>

\* A message event is dispatched on a channel only while its readyState is OPEN.
DispatchesUntilClosed(st) == st \in {"OPEN", "CLOSING"}
Dispatches(st) == st = "OPEN"

\* ws.onmessage, with the first frame in flight on channel c.
OnMessage ==
    \E c \in DOMAIN channels :
        /\ Dispatches(channels[c])
        /\ inflight[c] # <<>>
        /\ inflight' = [inflight EXCEPT ![c] = Tail(@)]
        /\ LET frame == Head(inflight[c])
               parsed == JSONparse(frame)
           IN  /\ IF parsed # <<>>
                  THEN LET message == [type |-> parsed[1].type, data |-> parsed[1].data,
                                       progress |-> parsed[1].progress,
                                       n |-> frame.n, late |-> c \in released]
                       IN  /\ lastMessage' = <<message>>
                           /\ messageHistory' =
                                 SubSeq(messageHistory,
                                        Max(1, Len(messageHistory) - HistoryKeep + 1),
                                        Len(messageHistory)) \o <<message>>
                           /\ effectDue' = TRUE
                  ELSE UNCHANGED <<lastMessage, messageHistory, effectDue>>
               /\ opened' = opened
               /\ ObserveWs("onmessage", [ch |-> c, ok |-> frame.ok])
        /\ UNCHANGED <<socket, connectionStatus, wsRef, channels, sent, sends, frames,
                       released, state, tripCountRef, handled>>

\* The effect on lastMessage: handleMessage(lastMessage) unless in mock mode.
RunEffect ==
    /\ effectDue
    /\ effectDue' = FALSE
    /\ IF lastMessage = Null \/ useMockMode
       THEN UNCHANGED <<state, tripCountRef, handled>>
       ELSE LET r == handleMessage(state, tripCountRef, lastMessage[1], now)
            IN  /\ state' = r.state
                /\ tripCountRef' = r.ref
                /\ handled' = handled + 1
    /\ UNCHANGED <<socket, connectionStatus, wsRef, channels, inflight, lastMessage,
                   messageHistory, sent, sends, frames, released>>
    /\ opened' = opened
    /\ ObserveWs("effect", 0)

\* WebSocket.close()
CloseChannel(st) == IF st \in {"CONNECTING", "OPEN"} THEN "CLOSING" ELSE st

\* useRealtimeTrips.disconnect: wsDisconnect() unless a mock server is in use.
Disconnect ==
    /\ IF useMockMode /\ mockServerRef # 0
       THEN UNCHANGED <<channels, wsRef, released>>
       ELSE IF wsRef # 0
       THEN /\ channels' = [channels EXCEPT ![wsRef] = CloseChannel(@)]
            /\ released' = released \cup {wsRef}
            /\ wsRef' = 0
       ELSE UNCHANGED <<channels, wsRef, released>>
    /\ UNCHANGED <<connectionStatus, socket, inflight, lastMessage, messageHistory, sent,
                   sends, frames, state, tripCountRef, effectDue, handled>>
    /\ opened' = opened
    /\ ObserveWs("disconnect", 0)

\* A send that transmits whatever the state of the channel owned.
sendMessageAlways(type) ==
    IF wsRef # 0
    THEN Append(sent, [ch |-> wsRef, type |-> type, call |-> sends + 1,
                       open |-> channels[wsRef] = "OPEN"])
    ELSE sent

\* sendMessage: what WebSocket.send has been handed after the call.
sendMessage(type) ==
    IF wsRef # 0 /\ channels[wsRef] = "OPEN"
    THEN Append(sent, [ch |-> wsRef, type |-> type, call |-> sends + 1,
                       open |-> channels[wsRef] = "OPEN"])
    ELSE sent

\* startSimulation / pauseSimulation / stopSimulation / setSpeed of the hook.
ControlTypes == {"start_simulation", "set_speed"}

Send ==
    \E type \in ControlTypes :
        /\ Len(channels) <= 1
        /\ frames = 0
        /\ sends < MaxSends
        /\ sends' = sends + 1
        /\ sent' = sendMessage(type)
        /\ UNCHANGED <<socket, connectionStatus, wsRef, channels, inflight, lastMessage,
                       messageHistory, frames, released, state, tripCountRef, effectDue,
                       handled>>
        /\ opened' = opened
        /\ ObserveWs("send", type)

(***************************************************************************)
(* Initial states and the specifications.                                  *)
(***************************************************************************)
(***************************************************************************)
(* A reducer fed by a replay engine: handleMessage is the engine's one     *)
(* subscriber and is called with every message of an operation, in the     *)
(* order of the broadcasts, before the operation returns.                  *)
(***************************************************************************)
RECURSIVE FeedAll(_, _, _, _)
FeedAll(st, ref, ms, t) ==
    IF ms = <<>> THEN [state |-> st, ref |-> ref]
    ELSE LET r == handleMessage(st, ref, Head(ms), t)
         IN  FeedAll(r.state, r.ref, Tail(ms), t)

FeedInstall(e, name, arg) ==
    /\ scenario = "feed"
    /\ speed' = e.speed
    /\ currentIndex' = e.currentIndex
    /\ isRunning' = e.isRunning
    /\ startTime' = e.startTime
    /\ simulationStartTime' = e.simulationStartTime
    /\ intervalId' = e.intervalId
    /\ timers' = e.timers
    /\ Observe(e.msgs, Op(name, arg, Eng))
    /\ emitted' = (IF name = "reset" THEN <<>> ELSE emitted) \o Batches(e.msgs)
    /\ completes' = completes + CountType(e.msgs, "simulation_complete")
    /\ LET r == FeedAll(state, tripCountRef, e.msgs, now')
       IN  state' = r.state /\ tripCountRef' = r.ref
    /\ UNCHANGED <<scenario, input, trips, batchSize, pauseMark, mockVars, wsVars,
                   busVars, lastTripCountTime, useMockMode, mockServerRef, effectDue,
                   handled, inserted, arrivals>>

FeedControl(e, name, arg) ==
    /\ ops < MaxOps
    /\ ops' = ops + 1
    /\ now' = now
    /\ FeedInstall(e, name, arg)

FeedStart == FeedControl(start(Eng), "start", 0)
FeedPause == FeedControl(pause(Eng), "pause", 0)
FeedResume == FeedControl(resume(Eng, now), "resume", 0)
FeedStop == FeedControl(stop(Eng), "stop", 0)
FeedReset == FeedControl(reset(Eng), "reset", 0)
FeedSetSpeed == \E v \in SpeedArgs : FeedControl(setSpeed(Eng, v, now), "setSpeed", v)

\* The engine's interval timer fires, the wall clock having moved on by d.
FeedTick ==
    /\ timers > 0
    /\ \E d \in 0..1 :
        /\ now + d <= MaxTime
        /\ now' = now + d
        /\ FeedInstall(tick(Eng, now'), "tick", d)
    /\ UNCHANGED ops

InitEngine ==
    /\ \E arr \in InputArrays : input = arr /\ trips = SortTrips(arr)
    /\ \E s \in CtorSpeeds : speed = CtorSpeed(s)
    /\ batchSize \in BatchSizes
    /\ currentIndex = 0
    /\ isRunning = FALSE
    /\ startTime = Null
    /\ simulationStartTime = Null
    /\ intervalId = 0
    /\ timers = 0

\* The engine of a behaviour that exercises another object.
IdleEngine ==
    /\ input = <<>> /\ trips = <<>> /\ speed = 10 /\ batchSize = 1
    /\ currentIndex = 0 /\ isRunning = FALSE /\ startTime = Null
    /\ simulationStartTime = Null /\ intervalId = 0 /\ timers = 0

InitMock ==
    /\ mockIntervalId = 0 /\ mockTimers = 0 /\ tripCount = 0
    /\ mockIsRunning = FALSE /\ mockSpeed = 10 /\ callback = FALSE

InitWs ==
    /\ socket = 0 /\ connectionStatus = "Disconnected" /\ wsRef = 0
    /\ channels = <<>>
    /\ lastMessage = Null /\ messageHistory = <<>>
    /\ inflight = <<>> /\ sent = <<>> /\ sends = 0 /\ frames = 0 /\ released = {}
    /\ opened = {}

InitReducer ==
    /\ state = InitialState
    /\ tripCountRef = 0 /\ lastTripCountTime = 0
    /\ useMockMode = FALSE /\ mockServerRef = 0
    /\ effectDue = FALSE /\ handled = 0 /\ inserted = {}
    /\ arrivals = [batches |-> <<>>, mark |-> 0]

\* The engine a bus behaviour broadcasts from: one trip, 1x, no subscriber yet.
BusEngine ==
    /\ input = <<[id |-> 1, t |-> 0]>> /\ trips = SortTrips(input)
    /\ speed = 10 /\ batchSize = 1
    /\ currentIndex = 0 /\ isRunning = FALSE /\ startTime = Null
    /\ simulationStartTime = Null /\ intervalId = 0 /\ timers = 0

InitCommon ==
    /\ now = 0
    /\ ops = 0
    /\ out = <<>>
    /\ prevTag = "none"
    /\ lastOp = Op("new", 0, 0)
    /\ emitted = <<>>
    /\ completes = 0
    /\ pauseMark = NoPause
    /\ InitMock
    /\ InitWs
    /\ InitReducer
    /\ subscribers = <<>> /\ received = <<>>

\* The replay engine or the synthetic generator, freshly constructed.
Init ==
    /\ InitCommon
    /\ \/ scenario = "replay" /\ InitEngine /\ urlValid = TRUE
       \/ scenario = "synthetic" /\ IdleEngine /\ urlValid = TRUE

\* The session manager of a freshly mounted hook.
SessionInit == InitCommon /\ scenario = "session" /\ IdleEngine /\ urlValid \in BOOLEAN

\* The reducer of a freshly mounted hook.
ReducerInit == InitCommon /\ scenario = "reducer" /\ IdleEngine /\ urlValid = TRUE

\* A replay engine whose bus takes subscribers.
BusInit == InitCommon /\ scenario = "bus" /\ BusEngine /\ urlValid = TRUE

Next ==
    \/ Start \/ Pause \/ Resume \/ Stop \/ Reset \/ SetSpeed \/ Tick \/ Advance
    \/ MockStart \/ MockStartSimulation \/ MockPauseSimulation \/ MockStopSimulation
    \/ MockSetSpeed \/ MockResetSimulation \/ MockStop \/ MockTick

Spec == Init /\ [][Next]_vars

SessionNext ==
    \/ Connect \/ OnOpen \/ OnError \/ OnClose \/ Disconnect
    \/ ServerSend \/ OnMessage \/ RunEffect \/ Send

SessionSpec == SessionInit /\ [][SessionNext]_vars

ReducerNext == Apply \/ Animate \/ ClearTrips \/ ReducerAdvance

ReducerSpec == ReducerInit /\ [][ReducerNext]_vars

BusNext ==
    \/ Subscribe \/ Unsubscribe
    \/ Start \/ Pause \/ Resume \/ Stop \/ Reset \/ SetSpeed \/ Destroy \/ Tick

BusSpec == BusInit /\ [][BusNext]_vars

\* A replay engine at 1x with a freshly mounted reducer as its subscriber.
FeedInit ==
    /\ InitCommon /\ scenario = "feed" /\ urlValid = TRUE
    /\ \E arr \in InputArrays : input = arr /\ trips = SortTrips(arr)
    /\ speed = 10 /\ batchSize = 1
    /\ currentIndex = 0 /\ isRunning = FALSE /\ startTime = Null
    /\ simulationStartTime = Null /\ intervalId = 0 /\ timers = 0

FeedNext ==
    \/ FeedStart \/ FeedPause \/ FeedResume \/ FeedStop \/ FeedReset \/ FeedSetSpeed
    \/ FeedTick

FeedSpec == FeedInit /\ [][FeedNext]_vars

\* The synthetic generator left running for long.
LongRunInit == InitCommon /\ scenario = "synthetic" /\ IdleEngine /\ urlValid = TRUE

LongRunNext ==
    \/ MockStart \/ MockStartSimulation \/ MockPauseSimulation
    \/ MockResetSimulation \/ LongTick

LongRunSpec == LongRunInit /\ [][LongRunNext]_vars

\* A replay engine at 1x and a synthetic generator with its callback
\* registered, both idle.
TwinInit ==
    /\ now = 0 /\ ops = 0 /\ out = <<>> /\ prevTag = "none"
    /\ lastOp = Op("new", 0, 0)
    /\ emitted = <<>> /\ completes = 0 /\ pauseMark = NoPause
    /\ scenario = "twin"
    /\ \E arr \in InputArrays : input = arr /\ trips = SortTrips(arr)
    /\ speed = 10 /\ batchSize = 1
    /\ currentIndex = 0 /\ isRunning = FALSE /\ startTime = Null
    /\ simulationStartTime = Null /\ intervalId = 0 /\ timers = 0
    /\ mockIntervalId = 0 /\ mockTimers = 0 /\ tripCount = 0
    /\ mockIsRunning = FALSE /\ mockSpeed = 10 /\ callback = TRUE
    /\ InitWs /\ InitReducer /\ urlValid = TRUE
    /\ subscribers = <<>> /\ received = <<>>

TwinNext ==
    \/ TwinStart \/ TwinPause \/ TwinStop \/ TwinSetSpeed
    \/ TwinTick \/ TwinMockTick

TwinSpec == TwinInit /\ [][TwinNext]_vars

(***************************************************************************)
(* Fair ticking: start() once, then only the interval timer, which fires   *)
(* again and again with the clock moving on.  Clock readings saturate at   *)
(* Horizon.                                                                *)
(***************************************************************************)
LiveStart ==
    /\ lastOp.name = "new"
    /\ Start

LiveTick ==
    /\ scenario = "replay"
    /\ timers > 0
    /\ \E d \in 1..2 :
        /\ now' = Min(now + d, Horizon)
        /\ Install(tick(Eng, now'), Op("tick", 0, Eng))
    /\ UNCHANGED <<ops, pauseMark>>

LiveInit == Init /\ scenario = "replay"

LiveNext == LiveStart \/ LiveTick

LiveSpec == LiveInit /\ [][LiveNext]_vars /\ WF_vars(LiveTick)

(***************************************************************************)
(* Properties.                                                             *)
(***************************************************************************)
Replay == scenario = "replay"
ValidSpeed(sp) == sp \in 1..500
\* min(50, max(0.1, v)), in tenths
ExpectedSpeed(v) == IF v < 1 THEN 1 ELSE IF v > 500 THEN 500 ELSE v
PrevType(i) == IF i > 1 THEN out[i - 1].type ELSE prevTag

(* C1: when an engine that was paused by pause() after at least one tick is *)
(* resumed, at any speed in [0.1, 50], the virtual time right after         *)
(* resume() equals the virtual time at the moment pause() was called, and   *)
(* resume() leaves virtual-origin (startTime) alone.                        *)
C1_ResumeKeepsVirtualTime ==
    (Replay /\ lastOp.name = "resume" /\ lastOp.arg = 1 /\ ValidSpeed(lastOp.pre.speed))
    => /\ VirtualTime10(Eng, now) = pauseMark.vt[1]
       /\ startTime = lastOp.pre.startTime

(* C2: the log is the input array sorted ascending by start timestamp, and  *)
(* the concatenation of the new_trips batches broadcast since construction  *)
(* (or since the last reset()) is exactly its prefix log[0..cursor): no     *)
(* event twice, none skipped, in log order.                                 *)
C2_EmittedIsLogPrefix ==
    Replay =>
       /\ Len(trips) = Len(input)
       /\ {trips[i] : i \in DOMAIN trips} = {input[i] : i \in DOMAIN input}
       /\ \A i, j \in DOMAIN trips : i < j => trips[i].t <= trips[j].t
       /\ emitted = SubSeq(trips, 1, currentIndex)

C2_Witness ==
    /\ Replay /\ lastOp.name = "tick" /\ ops >= 3
    /\ Len(input) >= 2 /\ input[1].t > input[2].t
    /\ currentIndex = Len(trips)
    /\ prevTag = "new_trips"

C5_OneSpeedChanged ==
    (lastOp.name \in {"setSpeed", "mock.setSpeed"})
    => /\ (IF Replay THEN speed ELSE mockSpeed) = ExpectedSpeed(lastOp.arg)
       /\ CountType(out, "speed_changed") = 1
       /\ \A i \in DOMAIN out :
             out[i].type = "speed_changed" => out[i].data = <<ExpectedSpeed(lastOp.arg)>>

(* C5 amended: the same, except that the generator reports the change to    *)
(* its callback only: with no callback registered (before start(callback),  *)
(* after stop()) its setSpeed clamps the speed and broadcasts nothing.      *)
C5_SetSpeedClamps ==
    /\ (lastOp.name = "setSpeed")
       => /\ speed = ExpectedSpeed(lastOp.arg)
          /\ CountType(out, "speed_changed") = 1
          /\ out[Len(out)] = Msg("speed_changed", <<ExpectedSpeed(lastOp.arg)>>)
    /\ (lastOp.name = "mock.setSpeed")
       => /\ mockSpeed = ExpectedSpeed(lastOp.arg)
          /\ out = IF lastOp.pre.callback
                   THEN <<Msg("speed_changed", <<ExpectedSpeed(lastOp.arg)>>)>>
                   ELSE <<>>

C5_Witness ==
    /\ lastOp.name = "setSpeed" /\ lastOp.arg = 10000
    /\ lastOp.pre.isRunning /\ lastOp.pre.speed = 1 /\ speed = 500
    /\ Len(out) = 4

(* C6: setSpeed(v) on a running engine leaves the virtual time as it was    *)
(* immediately before the call, and the engine is running again, with its   *)
(* timer, when the call returns.                                            *)
C6_SetSpeedKeepsVirtualTime ==
    (Replay /\ lastOp.name = "setSpeed" /\ lastOp.pre.isRunning
       /\ lastOp.pre.startTime # Null /\ ValidSpeed(lastOp.pre.speed))
    => /\ VirtualTime10(Eng, now) = VirtualTime10(lastOp.pre, now)
       /\ isRunning
       /\ timers = 1

(* C7: for a non-empty log, after start() with no further control call and  *)
(* fair ticking, the engine eventually has broadcast exactly one            *)
(* simulation_complete, with the cursor at the log length, not running and  *)
(* no timer scheduled.                                                      *)
C7_EventuallyCompletesOnce ==
    /\ (Len(trips) > 0 /\ lastOp.name = "start")
          ~> (/\ completes = 1 /\ currentIndex = Len(trips)
              /\ ~isRunning /\ timers = 0 /\ intervalId = 0)
    /\ [](completes <= 1)

(* C8 as stated: with an empty log, simulation_complete comes immediately   *)
(* after simulation_started, with no message between the two, and no        *)
(* new_trips is ever broadcast.                                             *)
C8_CompleteRightAfterStarted ==
    (Replay /\ Len(trips) = 0)
    => /\ CountType(out, "new_trips") = 0
       /\ \A i \in DOMAIN out :
             out[i].type = "simulation_complete" => PrevType(i) = "simulation_started"

(* C8 amended: with an empty log, start() broadcasts simulation_started     *)
(* alone; every tick then stops the engine and broadcasts                   *)
(* simulation_stopped immediately followed by simulation_complete, and      *)
(* nothing else; no new_trips is ever broadcast.                            *)
C8_EmptyLogStopsThenCompletes ==
    (Replay /\ Len(trips) = 0)
    => /\ CountType(out, "new_trips") = 0
       /\ emitted = <<>>
       /\ (lastOp.name = "start" /\ ~lastOp.pre.isRunning)
             => out = <<Msg("simulation_started", <<0>>)>>
       /\ lastOp.name = "tick"
             => /\ out = <<Msg("simulation_stopped", <<>>),
                           Msg("simulation_complete", <<>>)>>
                /\ ~isRunning /\ timers = 0
       /\ lastOp.name # "tick" => CountType(out, "simulation_complete") = 0

C8_Witness ==
    /\ Replay /\ Len(trips) = 0 /\ lastOp.name = "tick"
    /\ prevTag = "simulation_started" /\ completes = 1

(* C9: every new_trips message of the replay engine carries at least 1 and  *)
(* at most batchSize events, also when more than batchSize events are due   *)
(* at once.                                                                 *)
C9_BatchWithinBounds ==
    Replay =>
       \A i \in DOMAIN out :
          out[i].type = "new_trips"
             => Len(out[i].data) >= 1 /\ Len(out[i].data) <= batchSize

C9_Witness ==
    /\ Replay /\ lastOp.name = "tick" /\ ops >= 3 /\ prevTag = "simulation_resumed"
    /\ CountType(out, "new_trips") = 1
    /\ Len(Batches(out)) = batchSize
    /\ currentIndex < Len(trips)
    /\ 10 * trips[currentIndex + 1].t <= VirtualTime10(Eng, now)

(* C10: connect() while Connecting or Connected opens no channel, and in    *)
(* every reachable state at most one channel is open or opening, and it is  *)
(* the one the manager owns.                                                *)
C10_SingleChannel ==
    scenario = "session" =>
       LET live == {c \in DOMAIN channels : channels[c] \in {"CONNECTING", "OPEN"}}
       IN  /\ Cardinality(live) <= 1
           /\ \A c \in live : c = wsRef
           /\ (lastOp.name = "connect"
                 /\ lastOp.pre.connectionStatus \in {"Connecting", "Connected"})
                 => channels = lastOp.pre.channels

(***************************************************************************)
(* The session manager.                                                    *)
(***************************************************************************)
Session == scenario = "session"

\* No callback of any channel is still to fire and no effect is due.
Quiescent ==
    /\ \A c \in DOMAIN channels : channels[c] = "CLOSED"
    /\ ~effectDue

(* C11: when disconnect() is called with an owned channel, the connection   *)
(* state is Disconnected as soon as disconnect() has returned.              *)
C11_DisconnectedOnReturn ==
    (Session /\ lastOp.name = "disconnect" /\ lastOp.pre.wsRef # 0)
        => connectionStatus = "Disconnected"

(* C12: after disconnect() and then connect(), a close or error callback    *)
(* of the released channel leaves the connection state the new channel has  *)
(* reached (Connecting or Connected) as it is.                              *)
C12_StaleCallbackKeepsState ==
    (/\ Session
     /\ lastOp.name \in {"onclose", "onerror"}
     /\ lastOp.arg \in lastOp.pre.released
     /\ lastOp.pre.wsRef \notin {0, lastOp.arg}
     /\ lastOp.pre.connectionStatus \in {"Connecting", "Connected"})
        => connectionStatus = lastOp.pre.connectionStatus

(* C15: a send() while the owned channel is not open (or none is owned)     *)
(* changes no state and hands nothing to the channel, and nothing handed to *)
(* a channel comes from a call made while it was not open.                  *)
C15_SendWhileNotOpenDropped ==
    Session =>
        /\ (lastOp.name = "send"
              /\ (lastOp.pre.wsRef = 0
                    \/ lastOp.pre.channels[lastOp.pre.wsRef] # "OPEN"))
              => Ws = lastOp.pre
        /\ \A i \in DOMAIN sent : sent[i].open

\* A send() was dropped, and afterwards connect() has brought the channel up.
C15_Witness ==
    /\ Session
    /\ sends > 0 /\ sent = <<>>
    /\ wsRef # 0 /\ channels[wsRef] = "OPEN" /\ connectionStatus = "Connected"

(* C16: an inbound frame that fails to parse leaves the connection state,   *)
(* lastMessage, messageHistory and the reducer's state unchanged, and the   *)
(* connection state is not Error because of it.                             *)
C16_ParseFailureChangesNothing ==
    (Session /\ lastOp.name = "onmessage" /\ ~lastOp.arg.ok)
        => /\ Ws = lastOp.pre
           /\ connectionStatus # "Error"

\* A frame that does not parse has arrived after a message that did.
C16_Witness ==
    /\ Session /\ lastOp.name = "onmessage" /\ ~lastOp.arg.ok
    /\ lastMessage # Null /\ state.isPlaying

(* C17: after a channel-error callback the connection state is Error, and   *)
(* the close callback that follows the error leaves it Error.               *)
C17_ErrorUntilReconnect ==
    Session =>
        /\ lastOp.name = "onerror" => connectionStatus = "Error"
        /\ (lastOp.name = "onclose"
              /\ lastOp.pre.channels[lastOp.arg] = "FAILED"
              /\ lastOp.pre.connectionStatus = "Error")
              => connectionStatus = "Error"

(* C18: once the attempt on the owned channel has failed without ever       *)
(* opening and nothing more is to come from any channel, the session is in  *)
(* mock mode and reports Connected.                                         *)
C18_FallbackToSynthetic ==
    (/\ Session
     /\ wsRef # 0 /\ wsRef \notin opened
     /\ Quiescent)
        => useMockMode /\ ReportedStatus = "Connected"

Bus == scenario = "bus"

EngineOps == {"start", "pause", "resume", "stop", "reset", "setSpeed", "tick"}

MsgTypes == {"new_trips", "simulation_started", "simulation_stopped", "simulation_paused",
             "simulation_resumed", "speed_changed", "simulation_complete"}

Types(ms) == [i \in DOMAIN ms |-> ms[i].type]

Count(q, ty) == Cardinality({i \in DOMAIN q : q[i] = ty})

\* Engine e with every handler that raises replaced by one that returns.
Calm(e) ==
    [e EXCEPT !.subs = [i \in DOMAIN e.subs |->
                            IF e.subs[i] = "raises" THEN "plain" ELSE e.subs[i]]]

\* The engine after operation `name` on engine e at wall time t.
ApplyOp(name, arg, e, t) ==
    CASE name = "start" -> start(e)
      [] name = "pause" -> pause(e)
      [] name = "resume" -> resume(e, t)
      [] name = "stop" -> stop(e)
      [] name = "reset" -> reset(e)
      [] name = "setSpeed" -> setSpeed(e, arg, t)
      [] name = "tick" -> tick(e, t)

(* C13: every subscribed handler is called exactly once with each message   *)
(* an operation broadcasts, whichever handlers raise, and the operation     *)
(* leaves the engine in the state it would leave had no handler raised.     *)
C13_RaisingHandlerIsolated ==
    (Bus /\ lastOp.name \in EngineOps) =>
        /\ \A i \in DOMAIN subscribers \ Unsubscribed : \A ty \in MsgTypes :
              Count(received[i], ty) = Count(lastOp.pre.recv[i], ty) + CountType(out, ty)
        /\ LET calm == ApplyOp(lastOp.name, lastOp.arg, Calm(lastOp.pre), now)
           IN  /\ calm.msgs = out
               /\ calm.recv = received
               /\ [calm EXCEPT !.msgs = <<>>, !.subs = subscribers] = Eng

\* The first of two handlers raises on a broadcast and the second is a plain one.
C13_Witness ==
    /\ Bus /\ lastOp.name = "start" /\ out # <<>>
    /\ subscribers = <<"raises", "plain">>
    /\ received[2] = <<"simulation_started">>

(* C14: every subscriber is called with the messages of an operation in the *)
(* order in which the broadcasts were issued, also when a handler calls a   *)
(* control operation of the engine from inside a broadcast.                 *)
C14_DeliveryInBroadcastOrder ==
    (Bus /\ lastOp.name \in EngineOps) =>
        \A i \in DOMAIN subscribers : received[i] = lastOp.pre.recv[i] \o Types(out)

(***************************************************************************)
(* The reducer.                                                            *)
(***************************************************************************)
InReducer == scenario = "reducer"

\* The active entities under the key of insertion record x.
Present(x) == {a \in state.activeTrips : a.key = x.key}

\* x was inserted longer ago than the fixed duration.
Expired(x) == now >= x.at + TripDuration

\* The clock is strictly between the insertion of x and the end of its duration.
Midway(x) == x.at < now /\ now < x.at + TripDuration

(* C20 as stated: after an animation step, an entity last inserted at T is  *)
(* absent once now >= T + D, and present with progress (now - T) / D while  *)
(* T < now < T + D.                                                         *)
C20_AbsentAfterPresentBefore ==
    (InReducer /\ lastOp.name = "animate") =>
        \A x \in inserted :
            /\ Expired(x) => Present(x) = {}
            /\ Midway(x) => \E a \in Present(x) : a.progress = now - x.at

(* C20, amended: after an animation step, an entity last inserted at T is   *)
(* absent once now >= T + D, and, unless clearTrips() was called since its  *)
(* insertion, present exactly once with progress (now - T) / D, within      *)
(* [0, 1], while T < now < T + D.                                           *)
C20_EvictedAtDuration ==
    (InReducer /\ lastOp.name = "animate") =>
        \A x \in inserted :
            /\ Expired(x) => Present(x) = {}
            /\ (Midway(x) /\ ~x.cleared) =>
                  /\ Cardinality(Present(x)) = 1
                  /\ \A a \in Present(x) :
                        /\ a.progress = now - x.at
                        /\ a.animationStartTime = x.at
                        /\ 0 <= a.progress /\ a.progress <= TripDuration

\* An animation step has evicted one entity and kept another that is midway.
C20_Witness ==
    /\ InReducer /\ lastOp.name = "animate"
    /\ \E x, y \in inserted :
        /\ ~x.cleared /\ Expired(x) /\ Present(x) = {}
        /\ \E a \in lastOp.pre.state.activeTrips : a.key = x.key
        /\ ~y.cleared /\ Midway(y) /\ Present(y) # {}

\* The trips of a sequence of batches, the newest batch first.
RECURSIVE NewestFirst(_)
NewestFirst(bs) ==
    IF bs = <<>> THEN <<>>
    ELSE bs[Len(bs)] \o NewestFirst(SubSeq(bs, 1, Len(bs) - 1))

(* C21: the recent list has at most maxRecentTrips entries, and it is the   *)
(* first maxRecentTrips of the events received (since the last clearing),   *)
(* newest batch first: the oldest are the ones dropped.                     *)
C21_RecentIsNewestCapped ==
    InReducer =>
        LET newest == NewestFirst(arrivals.batches)
        IN  /\ Len(state.recentTrips) <= MaxRecentTrips
            /\ state.recentTrips = SubSeq(newest, 1, Min(Len(newest), MaxRecentTrips))

\* A second batch has pushed the list over the cap.
C21_Witness ==
    /\ InReducer /\ lastOp.name = "message" /\ lastOp.arg.type = "new_trips"
    /\ Len(arrivals.batches) >= 2
    /\ Len(NewestFirst(arrivals.batches)) > MaxRecentTrips
    /\ Len(state.recentTrips) = MaxRecentTrips

(* C22: clearTrips() empties the recent list, the cumulative list and the   *)
(* active set, zeroes the cumulative count, the windowed count and the      *)
(* events-per-second, and leaves the connection state, the mock-mode flag,  *)
(* the playing flag, the speed, the progress and the total count as they    *)
(* were.                                                                    *)
C22_ClearTripsFrame ==
    (InReducer /\ lastOp.name = "clearTrips") =>
        /\ state.recentTrips = <<>> /\ state.allTrips = <<>> /\ state.activeTrips = {}
        /\ state.tripCount = 0 /\ tripCountRef = 0 /\ state.tripsPerSecond = 0
        /\ ReportedStatus = lastOp.pre.connectionStatus
        /\ useMockMode = lastOp.pre.useMockMode
        /\ state.isPlaying = lastOp.pre.state.isPlaying
        /\ state.currentSpeed = lastOp.pre.state.currentSpeed
        /\ state.progress = lastOp.pre.state.progress
        /\ state.totalTrips = lastOp.pre.state.totalTrips

\* clearTrips() on a reducer that holds trips, a progress and a total.
C22_Witness ==
    /\ InReducer /\ lastOp.name = "clearTrips"
    /\ lastOp.pre.state.allTrips # <<>> /\ lastOp.pre.state.activeTrips # {}
    /\ lastOp.pre.tripCountRef > 0
    /\ state.progress > 0 /\ state.totalTrips > 0

\* The number of trips that have arrived in the current throughput window.
WindowArrivals(a) == Len(NewestFirst(SubSeq(a.batches, a.mark + 1, Len(a.batches))))

(* C23: the windowed counter counts the trips that arrived in the current   *)
(* window; an animation step at which the window has elapsed reports their  *)
(* number per second of the window (to a hundredth), zeroes the windowed    *)
(* counter and starts the next window, and no animation step changes the    *)
(* cumulative count; a step before the window has elapsed changes neither   *)
(* the report nor the counter.                                              *)
C23_ThroughputWindow ==
    InReducer =>
        /\ tripCountRef = WindowArrivals(arrivals)
        /\ lastOp.name = "animate" =>
              LET since == now - lastOp.pre.lastTripCountTime
                  n == WindowArrivals(lastOp.pre.arrivals)
                  diff == state.tripsPerSecond * since - n * 100000
              IN  /\ state.tripCount = lastOp.pre.state.tripCount
                  /\ IF since >= WindowMs
                     THEN /\ tripCountRef = 0
                          /\ lastTripCountTime = now
                          /\ 2 * diff <= since /\ -2 * diff <= since
                     ELSE /\ tripCountRef = lastOp.pre.tripCountRef
                          /\ lastTripCountTime = lastOp.pre.lastTripCountTime
                          /\ state.tripsPerSecond = lastOp.pre.state.tripsPerSecond

\* A window with arrivals was reported, and the next one, with none, reports 0.
C23_Witness ==
    /\ InReducer /\ lastOp.name = "animate"
    /\ now - lastOp.pre.lastTripCountTime >= WindowMs
    /\ WindowArrivals(lastOp.pre.arrivals) = 0
    /\ lastOp.pre.state.tripsPerSecond > 0 /\ state.tripsPerSecond = 0
    /\ state.tripCount > 0

(* C29: a simulation_started or simulation_resumed message sets the playing *)
(* flag, a simulation_paused, simulation_stopped or simulation_complete     *)
(* message clears it, and nothing else changes it.                          *)
C29_PlayingFollowsLifecycle ==
    InReducer =>
        /\ lastOp.name = "message" =>
              state.isPlaying =
                 (IF lastOp.arg.type \in {"simulation_started", "simulation_resumed"}
                  THEN TRUE
                  ELSE IF lastOp.arg.type \in {"simulation_paused", "simulation_stopped",
                                               "simulation_complete"}
                  THEN FALSE
                  ELSE lastOp.pre.state.isPlaying)
        /\ lastOp.name \in {"animate", "clearTrips"} =>
              state.isPlaying = lastOp.pre.state.isPlaying

\* A message that is no lifecycle message has left the flag set.
C29_Witness ==
    /\ InReducer /\ lastOp.name = "message"
    /\ lastOp.arg.type \in {"new_trips", "speed_changed"}
    /\ state.isPlaying

(* C25: start() on a running replay engine changes no engine state,         *)
(* broadcasts nothing and schedules no further timer.                       *)
C25_StartWhileRunningNoOp ==
    (Replay /\ lastOp.name = "start" /\ lastOp.pre.isRunning) =>
        /\ Eng = lastOp.pre
        /\ out = <<>>
        /\ timers = lastOp.pre.timers

\* start() was called on an engine that was running with a timer scheduled.
C25_Witness ==
    /\ Replay /\ lastOp.name = "start"
    /\ lastOp.pre.isRunning /\ lastOp.pre.timers = 1
    /\ isRunning /\ timers = 1

(* C26: resume() on a running replay engine leaves the engine state as it   *)
(* was and broadcasts one simulation_resumed message.                       *)
C26_ResumeWhileRunningBroadcasts ==
    (Replay /\ lastOp.name = "resume" /\ lastOp.pre.isRunning) =>
        /\ Eng = lastOp.pre
        /\ Types(out) = <<"simulation_resumed">>

(* C27: stop() cancels the timer, clears the running flag and broadcasts    *)
(* simulation_stopped, and leaves the cursor, the speed and both origins    *)
(* as they were.                                                            *)
C27_StopFrame ==
    (Replay /\ lastOp.name = "stop") =>
        /\ timers = 0 /\ intervalId = 0 /\ ~isRunning
        /\ Types(out) = <<"simulation_stopped">>
        /\ currentIndex = lastOp.pre.currentIndex
        /\ speed = lastOp.pre.speed
        /\ startTime = lastOp.pre.startTime
        /\ simulationStartTime = lastOp.pre.simulationStartTime

\* stop() on an engine that was running mid-log with both origins set.
C27_Witness ==
    /\ Replay /\ lastOp.name = "stop"
    /\ lastOp.pre.isRunning /\ lastOp.pre.timers = 1
    /\ lastOp.pre.currentIndex > 0 /\ lastOp.pre.currentIndex < Len(trips)
    /\ lastOp.pre.startTime # Null /\ lastOp.pre.simulationStartTime # Null

(* C28: after reset() the engine is not running, has no timer, its cursor   *)
(* is 0 and both origins are null; the first tick of the run that follows   *)
(* takes the first event's start timestamp as the virtual origin and the    *)
(* current wall time as the wall-clock origin, and the events emitted since *)
(* the reset are the log from its first event on.                           *)
C28_ResetReplaysFromFirst ==
    Replay =>
        /\ lastOp.name = "reset" =>
              /\ ~isRunning /\ timers = 0 /\ intervalId = 0
              /\ currentIndex = 0
              /\ startTime = Null /\ simulationStartTime = Null
        /\ (lastOp.name = "tick" /\ lastOp.pre.startTime = Null /\ trips # <<>>) =>
              /\ lastOp.pre.currentIndex = 0
              /\ startTime = Date(trips[1].t)
              /\ simulationStartTime = Date(now)
              /\ VirtualTime10(Eng, now) = 10 * trips[1].t
              /\ Batches(out) = SubSeq(trips, 1, currentIndex)
        /\ pauseMark.reset => emitted = SubSeq(trips, 1, currentIndex)

\* A run was completed, the engine reset and started again, and its first
\* tick emits the first event once more.
C28_Witness ==
    /\ Replay /\ lastOp.name = "tick"
    /\ pauseMark.reset /\ completes >= 1
    /\ lastOp.pre.startTime = Null
    /\ Batches(out) # <<>> /\ emitted = Batches(out)
    /\ emitted[1] = trips[1]

(* C30: the cursor stays between 0 and the log length, and no operation     *)
(* but reset() lowers it.                                                   *)
C30_CursorMonotone ==
    Replay =>
        /\ 0 <= currentIndex /\ currentIndex <= Len(trips)
        /\ lastOp.name \in EngineOps \ {"reset"} =>
              currentIndex >= lastOp.pre.currentIndex

\* pause() on a running engine whose cursor is at the end of the log.
C30_Witness ==
    /\ Replay /\ lastOp.name = "pause"
    /\ lastOp.pre.isRunning
    /\ Len(trips) > 0
    /\ lastOp.pre.currentIndex = Len(trips) /\ currentIndex = Len(trips)

Twin == scenario = "twin"

\* The tags of the messages that are no new_trips message.
Lifecycle(ms) == SelectSeq(Types(ms), LAMBDA ty : ty # "new_trips")

TwinOps == {"start", "pause", "stop", "setSpeed"}

(* C24 as stated: every control call draws the same lifecycle tags from the *)
(* synthetic generator as from the replay engine.                           *)
C24_SameLifecycleTags ==
    (Twin /\ lastOp.name \in TwinOps) => Lifecycle(out) = Lifecycle(lastOp.arg.mock)

(* C24: both sources use the engine's seven message tags and nothing else;  *)
(* start, pause and stop called while both are in the same running state    *)
(* draw the same lifecycle tags from both; setSpeed draws one speed_changed *)
(* with the same value from both, which the engine, when it is running,     *)
(* sends after simulation_paused, simulation_started and simulation_resumed.*)
C24_SameVocabulary ==
    (Twin /\ lastOp.name # "new") =>
        LET mock == lastOp.arg.mock
            pre == lastOp.pre
        IN  /\ \A i \in DOMAIN out : out[i].type \in MsgTypes
            /\ \A i \in DOMAIN mock : mock[i].type \in MsgTypes
            /\ (lastOp.name \in {"start", "pause", "stop"}
                /\ pre.eng.isRunning = pre.mock.isRunning) =>
                  Lifecycle(out) = Lifecycle(mock)
            /\ lastOp.name = "setSpeed" =>
                  /\ Types(mock) = <<"speed_changed">>
                  /\ Types(out) = IF pre.eng.isRunning
                                  THEN <<"simulation_paused", "simulation_started",
                                         "simulation_resumed", "speed_changed">>
                                  ELSE <<"speed_changed">>
                  /\ out[Len(out)] = mock[1]

\* Both sources were running when pause was called, and each reported it.
C24_Witness ==
    /\ Twin /\ lastOp.name = "pause"
    /\ lastOp.pre.eng.isRunning /\ lastOp.pre.mock.isRunning
    /\ Types(out) = <<"simulation_paused">>
    /\ Types(lastOp.arg.mock) = <<"simulation_paused">>
    /\ tripCount > 0 /\ currentIndex > 0

(* C31: pause() on an engine that is not running changes no engine state   *)
(* and broadcasts nothing; pause() on a running engine leaves the cursor,   *)
(* the speed and the virtual origin as they were.                           *)
C31_PauseFrame ==
    (Replay /\ lastOp.name = "pause") =>
        /\ ~lastOp.pre.isRunning => (Eng = lastOp.pre /\ out = <<>>)
        /\ lastOp.pre.isRunning =>
              /\ currentIndex = lastOp.pre.currentIndex
              /\ speed = lastOp.pre.speed
              /\ startTime = lastOp.pre.startTime

\* pause() on an engine that had been halted mid-log already.
C31_Witness ==
    /\ Replay /\ lastOp.name = "pause"
    /\ ~lastOp.pre.isRunning /\ lastOp.pre.timers = 0
    /\ lastOp.pre.startTime # Null
    /\ lastOp.pre.currentIndex > 0 /\ lastOp.pre.currentIndex < Len(trips)

\* The tags of q as a set.
TagSet(q) == {q[k] : k \in DOMAIN q}

(* C32: a handler whose unsubscribe function has been called receives       *)
(* nothing from any later broadcast; the unsubscription takes away that     *)
(* handler only; and every handler still subscribed receives every message  *)
(* an operation broadcasts.                                                 *)
C32_UnsubscribedReceivesNothing ==
    Bus =>
        /\ lastOp.name \in EngineOps =>
              \A i \in DOMAIN subscribers :
                 IF lastOp.pre.subs[i] = "gone"
                 THEN received[i] = lastOp.pre.recv[i]
                 ELSE /\ Len(received[i]) = Len(lastOp.pre.recv[i]) + Len(out)
                      /\ TagSet(SubSeq(received[i], Len(lastOp.pre.recv[i]) + 1,
                                       Len(received[i])))
                            = TagSet(Types(out))
        /\ lastOp.name = "unsubscribe" =>
              /\ subscribers[lastOp.arg] = "gone"
              /\ \A i \in DOMAIN subscribers \ {lastOp.arg} :
                    subscribers[i] = lastOp.pre.subs[i]
              /\ received = lastOp.pre.recv

\* One handler was unsubscribed after it had received a message, and a later
\* operation's broadcasts reached the other handler only.
C32_Witness ==
    /\ Bus /\ lastOp.name \in EngineOps /\ out # <<>>
    /\ \E i, j \in DOMAIN subscribers :
          /\ subscribers[i] = "gone" /\ lastOp.pre.subs[i] = "gone"
          /\ received[i] # <<>>
          /\ subscribers[j] # "gone"
          /\ Len(received[j]) = Len(received[i]) + Len(out)

(* C36: in every reachable state of the replay engine a timer is scheduled *)
(* exactly when the running flag is set, and never more than one.           *)
C36_TimerIffRunning ==
    (Bus \/ Replay) => timers = (IF isRunning THEN 1 ELSE 0)

(* C33: every new_trips message of the replay engine carries a progress    *)
(* payload with current = the cursor after the batch, total = the log       *)
(* length, 0 < current <= total and percentage = round(100 * current /      *)
(* total), within 0..100; current is the number of events sent since        *)
(* construction or the last reset(), so it grows by the size of each batch; *)
(* and a tick that finds events left but none due broadcasts nothing.       *)
C33_ProgressPayload ==
    Replay =>
        /\ \A i \in DOMAIN out :
              out[i].type = "new_trips" =>
                 LET p == out[i].progress[1]
                     d == 2 * (100 * p.current - p.percentage * p.total)
                 IN  /\ lastOp.name = "tick"
                     /\ out[i].data # <<>>
                     /\ p.current = currentIndex
                     /\ p.current = lastOp.pre.currentIndex + Len(out[i].data)
                     /\ p.current = Len(emitted)
                     /\ p.total = Len(trips)
                     /\ 0 < p.current /\ p.current <= p.total
                     /\ -p.total <= d /\ d < p.total
                     /\ 0 <= p.percentage /\ p.percentage <= 100
        /\ (lastOp.name = "tick" /\ lastOp.pre.currentIndex < Len(trips)
            /\ currentIndex = lastOp.pre.currentIndex) => out = <<>>

\* The second batch of a run: its payload counts the first batch too.
C33_Witness ==
    /\ Replay /\ lastOp.name = "tick"
    /\ Len(out) = 1 /\ out[1].type = "new_trips"
    /\ lastOp.pre.currentIndex > 0
    /\ out[1].progress[1].current = lastOp.pre.currentIndex + Len(out[1].data)
    /\ Len(emitted) > Len(out[1].data)

(* C34: an animation step run again at the same clock value, no message    *)
(* having come in between, changes nothing: the active set with every       *)
(* entity's progress, the windowed counter, the window's start and the      *)
(* reported events-per-second stay as the first run left them.              *)
C34_AnimateIdempotent ==
    (InReducer /\ lastOp.name = "animate") =>
        LET again == updateAnimations(state, tripCountRef, lastTripCountTime, now)
        IN  /\ again.state.activeTrips = state.activeTrips
            /\ again.state.tripsPerSecond = state.tripsPerSecond
            /\ again.state = state
            /\ again.ref = tripCountRef
            /\ again.last = lastTripCountTime

\* The first run closed a window that had arrivals and moved an entity on.
C34_Witness ==
    /\ InReducer /\ lastOp.name = "animate"
    /\ now - lastOp.pre.lastTripCountTime >= WindowMs
    /\ lastOp.pre.tripCountRef > 0
    /\ state.tripsPerSecond > 0
    /\ \E a \in state.activeTrips : a.progress > 0

Synthetic == scenario = "synthetic"

(* C35: in every new_trips message of the synthetic generator current does  *)
(* not exceed total (1000) and percentage is within 0..100, however many    *)
(* messages have been sent; the counter grows by the size of the batch      *)
(* (1 to 3) with each message and only the generator's reset lowers it.     *)
C35_CounterCappedAtTotal ==
    Synthetic =>
        /\ \A i \in DOMAIN out :
              out[i].type = "new_trips" =>
                 LET p == out[i].progress[1]
                 IN  /\ p.total = MockTotal
                     /\ p.current <= p.total
                     /\ 0 <= p.percentage10 /\ p.percentage10 <= 1000
                     /\ Len(out[i].data) \in 1..MockMaxBatch
                     /\ p.current = lastOp.pre.tripCount + Len(out[i].data)
                     /\ p.current = tripCount
        /\ (lastOp.name \notin {"new", "mock.resetSimulation"}) =>
              tripCount >= lastOp.pre.tripCount

(* C37: the replay engine's speed lies in [0.1, 50] (1..500 tenths) in     *)
(* every reachable state, the state right after construction included.      *)
C37_SpeedInRange ==
    Replay => (1 <= speed /\ speed <= 500)

(* C38: every well-formed message received on the channel is applied to   *)
(* the reducer exactly once, also when several arrive before the effect on  *)
(* the last message runs: once no effect is due, as many messages have been *)
(* applied as were received, and the cumulative trip count is the number of *)
(* trips in the new_trips messages received.                                *)
C38_EveryMessageApplied ==
    (Session /\ ~effectDue) =>
        /\ handled = Len(messageHistory)
        /\ state.tripCount = Len(Batches(messageHistory))

Fed == scenario = "feed"

(* C39: a reducer fed every message of one replay engine has its playing    *)
(* flag equal to the engine's running flag whenever an engine operation or  *)
(* tick has returned.                                                       *)
C39_PlayingIsRunning ==
    Fed => state.isPlaying = isRunning

\* The flags agree after a setSpeed on a running engine, which sent
\* simulation_paused, simulation_started, simulation_resumed, speed_changed.
C39_Witness ==
    /\ Fed /\ lastOp.name = "setSpeed" /\ lastOp.pre.isRunning
    /\ Types(out) = <<"simulation_paused", "simulation_started",
                      "simulation_resumed", "speed_changed">>
    /\ isRunning /\ state.isPlaying
    /\ state.currentSpeed = speed

====
